---- MODULE Spec2Model ----
(***************************************************************************)
(* Model of src/include/helpers.hpp (namespace Helpers and the memory-size *)
(* literals) and of src/src/main.cpp.                                      *)
(*                                                                         *)
(* A fixed-width integer is modelled by the set of positions of its one    *)
(* bits (bit 0 is the least significant), so that values of 32 and 64 bits *)
(* are represented exactly.  Every shift is done in the width of its       *)
(* promoted left operand, as C++ does it: operands narrower than int are   *)
(* promoted to a 32-bit int first.  The language level is C++20 (the       *)
(* header uses std::bit_cast): << and >> on signed operands are defined    *)
(* (modular, arithmetic), and a shift by a count that is negative or not   *)
(* smaller than the operand's width is undefined behaviour: such a shift    *)
(* yields one of several values (UndefinedShift), so an operator that      *)
(* models a helper returns the set of values the call may return.          *)
(*                                                                         *)
(* The helpers are pure and independent of each other, so each family has  *)
(* its own specification (SpecSignExtend, SpecRotate, SpecOnes,            *)
(* SpecGetBits, SpecBCD, SpecLiteral): from Init one call is made with     *)
(* arguments drawn from bounded sets.  SpecStaticFor expands one           *)
(* static_for call step by step, SpecMain runs main.                       *)
(***************************************************************************)
EXTENDS Integers, Sequences, FiniteSets

VARIABLES
    fn,        \* the helper called last ("none" before the first call)
    width,     \* bit-width of the template parameter T / of the output type
    value,     \* the value argument, as a set of bit positions
    amount,    \* bits / startingSize / offset argument
    count,     \* count / bits template argument of ones and getBits
    result,    \* the value returned, as a set of bit positions
    byteIn,    \* incBCDByte: the argument (0..255)
    byteOut,   \* incBCDByte: the value returned (0..255)
    litUnit,   \* memory-size literal: "KB", "MB" or "GB" ("none" before)
    litX,      \* memory-size literal: the count x, 8 little-endian bytes
    litOut,    \* memory-size literal: the size_t returned, 8 bytes
    sfPc,      \* static_for: "idle", "impl" (expanding the fold) or "done"
    sfBegin,   \* static_for: template argument Begin
    sfEnd,     \* static_for: template argument End
    sfIs,      \* static_for: the pack Is... still to be expanded
    sfCalls,   \* static_for: the arguments f has been invoked with, in order
    pc,        \* main: program position
    argc,      \* main: argument count
    argv1,     \* main: argv[1] ("" when argc = 1)
    cwd,       \* main: std::filesystem::current_path()
    romPath,   \* main: the local romPath
    loadOk,    \* main: what emu.loadROM(romPath) returned
    trace,     \* main: the Emulator methods called so far, in order
    stdout,    \* main: what has been written to standard output
    exitCode   \* main: the process's exit status (-1 while it runs)

vars == <<fn, width, value, amount, count, result, byteIn, byteOut,
          litUnit, litX, litOut, sfPc, sfBegin, sfEnd, sfIs, sfCalls,
          pc, argc, argv1, cwd, romPath, loadOk, trace, stdout, exitCode>>

bitVars  == <<fn, width, value, amount, count, result>>
bcdVars  == <<byteIn, byteOut>>
litVars  == <<litUnit, litX, litOut>>
sfVars   == <<sfPc, sfBegin, sfEnd, sfIs, sfCalls>>
mainVars == <<pc, argc, argv1, cwd, romPath, loadOk, trace, stdout, exitCode>>

-----------------------------------------------------------------------------
(* Fixed-width integers                                                    *)

\* u8, u16, u32, u64: the unsigned types the templates are instantiated with.
Widths == {8, 16, 32, 64}

\* Width of int: operands narrower than int are promoted to it.
IntWidth == 32

\* Width of std::size_t (LP64 / LLP64 targets).
SizeWidth == 64

\* Width of the type an operand of width W has after integer promotion.
Promoted(W) == IF W < IntWidth THEN IntWidth ELSE W

AllOnes(W) == 0 .. (W - 1)

\* Conversion to an unsigned type of width W: the low W bits.
Trunc(W, x) == x \cap AllOnes(W)

\* Conversion of a signed value of width From to a wider signed type.
SignExtendTo(From, To, x) ==
    IF (From - 1) \in x THEN x \cup (From .. (To - 1)) ELSE x

\* x << k, x >> k (unsigned) and x >> k (signed) in an operand of width OW,
\* for a count k in 0 .. OW-1.
ShlBits(OW, x, k) == {i + k : i \in x} \cap AllOnes(OW)
ShrBits(OW, x, k) == {i - k : i \in {j \in x : j >= k}}
SarBits(OW, x, k) ==
    ShrBits(OW, x, k) \cup (IF (OW - 1) \in x THEN (OW - k) .. (OW - 1) ELSE {})

\* What a shift whose count is out of range may yield (undefined behaviour):
\* zero, the shift by the count's low bits (a hardware shifter that masks the
\* count), or an unrelated bit pattern (a value the optimiser never computed).
UndefinedShift(OW, exact) == {{}, exact, AllOnes(OW), {0}}

Shl(OW, x, k) ==
    IF k \in 0 .. (OW - 1) THEN {ShlBits(OW, x, k)}
    ELSE UndefinedShift(OW, ShlBits(OW, x, k % OW))
Shr(OW, x, k) ==
    IF k \in 0 .. (OW - 1) THEN {ShrBits(OW, x, k)}
    ELSE UndefinedShift(OW, ShrBits(OW, x, k % OW))
Sar(OW, x, k) ==
    IF k \in 0 .. (OW - 1) THEN {SarBits(OW, x, k)}
    ELSE UndefinedShift(OW, SarBits(OW, x, k % OW))

\* value << k and value >> k for a value of the unsigned type of width W:
\* u8 and u16 are promoted to the signed int first, u32 and u64 are not.
ShlT(W, x, k) == Shl(Promoted(W), x, k)
ShrT(W, x, k) ==
    IF W < IntWidth THEN Sar(IntWidth, x, k) ELSE Shr(W, x, k)

\* ~x for x of the unsigned type of width W (promoted like the shifts).
NotT(W, x) == AllOnes(Promoted(W)) \ x

\* The inputs the helpers are called with: for each width the values with
\* one bit set or one bit clear, with and without the top bit, and the
\* values 2^k - 1 (0, 1, 3, ..., 0xFF, ..., ~0).
Values(W) ==
    LET one == {{a} : a \in AllOnes(W)} \cup {{a, W - 1} : a \in AllOnes(W)}
    IN  {AllOnes(k) : k \in 0 .. W} \cup one \cup {AllOnes(W) \ s : s \in one}

-----------------------------------------------------------------------------
(* Helpers::signExtend32, Helpers::signExtend16                            *)

\* u32 signExtend32(u32 value, u32 startingSize)
SignExtend32LogicalShift(v, startingSize) ==
    LET temp == v
        bitsToShift == 32 - startingSize
    IN  {Trunc(32, r) : r \in UNION {Shr(32, l, bitsToShift) :
                                       l \in Shl(32, temp, bitsToShift)}}

SignExtend32(v, startingSize) ==
    LET temp == v                          \* (s32)value: same 32 bits
        bitsToShift == 32 - startingSize   \* u32
    IN  {Trunc(32, r) : r \in UNION {Sar(32, l, bitsToShift) :
                                       l \in Shl(32, temp, bitsToShift)}}

\* u16 signExtend16(u16 value, u32 startingSize)
SignExtend16(v, startingSize) ==
    LET temp == SignExtendTo(16, IntWidth, v)  \* (s16)value, promoted to int
        bitsToShift == 16 - startingSize       \* u32
    IN  {Trunc(16, r) : r \in UNION {Sar(IntWidth, l, bitsToShift) :
                                       l \in Shl(IntWidth, temp, bitsToShift)}}

CallSignExtend32 ==
    /\ fn = "none"
    /\ \E v \in Values(32), n \in 0 .. 32 :
        /\ fn' = "signExtend32"
        /\ width' = 32
        /\ value' = v
        /\ amount' = n
        /\ count' = 0
        /\ result' \in SignExtend32(v, n)
        /\ UNCHANGED <<bcdVars, litVars, sfVars, mainVars>>

CallSignExtend16 ==
    /\ fn = "none"
    /\ \E v \in Values(16), n \in 0 .. 16 :
        /\ fn' = "signExtend16"
        /\ width' = 16
        /\ value' = v
        /\ amount' = n
        /\ count' = 0
        /\ result' \in SignExtend16(v, n)
        /\ UNCHANGED <<bcdVars, litVars, sfVars, mainVars>>

-----------------------------------------------------------------------------
(* Helpers::rotr, Helpers::rotl                                            *)

\* An int as the bits of its conversion to std::size_t (two's complement,
\* sign-extended), and a small unsigned value read back from its bits.
IntToSizeBits(n) ==
    {i \in 0 .. 30 : (n \div 2 ^ i) % 2 = 1} \cup
        (IF n < 0 THEN 31 .. (SizeWidth - 1) ELSE {})
RECURSIVE BitsToNat(_)
BitsToNat(b) ==
    IF b = {} THEN 0
    ELSE LET i == CHOOSE j \in b : TRUE IN 2 ^ i + BitsToNat(b \ {i})

\* bits &= bitWidth - 1;  (int & size_t, assigned back to the int)
ReduceBits(W, bits) == BitsToNat(IntToSizeBits(bits) \cap IntToSizeBits(W - 1))

\* T rotr(T value, int bits), T of width W
Rotr(W, v, bits0) ==
    LET bitWidth == W
        bits == ReduceBits(W, bits0)
    IN  {Trunc(W, r \cup l) : r \in ShrT(W, v, bits),
                              l \in ShlT(W, v, bitWidth - bits)}

\* T rotl(T value, int bits), T of width W
Rotl(W, v, bits0) ==
    LET bitWidth == W
        bits == ReduceBits(W, bits0)
    IN  {Trunc(W, l \cup r) : l \in ShlT(W, v, bits),
                              r \in ShrT(W, v, bitWidth - bits)}

\* How far beyond -W .. 2W the rotation amounts drawn go.
RotSlack == 1

Amounts(W) == (0 - W - RotSlack) .. (2 * W + RotSlack)

CallRotr ==
    /\ fn = "none"
    /\ \E W \in Widths : \E v \in Values(W), n \in Amounts(W) :
        /\ fn' = "rotr"
        /\ width' = W
        /\ value' = v
        /\ amount' = n
        /\ count' = 0
        /\ result' \in Rotr(W, v, n)
        /\ UNCHANGED <<bcdVars, litVars, sfVars, mainVars>>

CallRotl ==
    /\ fn = "none"
    /\ \E W \in Widths : \E v \in Values(W), n \in Amounts(W) :
        /\ fn' = "rotl"
        /\ width' = W
        /\ value' = v
        /\ amount' = n
        /\ count' = 0
        /\ result' \in Rotl(W, v, n)
        /\ UNCHANGED <<bcdVars, litVars, sfVars, mainVars>>

\* rotl(rotr(x, n), n): rotl applied to what rotr returned, by the same n.
CallRotlOfRotr ==
    /\ fn = "rotr"
    /\ fn' = "rotl(rotr)"
    /\ result' \in Rotl(width, result, amount)
    /\ UNCHANGED <<width, value, amount, count>>
    /\ UNCHANGED <<bcdVars, litVars, sfVars, mainVars>>

-----------------------------------------------------------------------------
(* Helpers::ones, Helpers::getBits                                         *)

\* ones without the static_cast<T> of ~T(0): the promoted int -1 is shifted.
OnesNoCast(W, cnt) ==
    LET bitsize == W
    IN  IF cnt = 0 THEN {{}}
        ELSE {Trunc(W, r) : r \in Sar(Promoted(W), NotT(W, {}), bitsize - cnt)}

\* template <typename T, usize count> T ones(), T of width W, count <= W
\* (a larger count fails the static_assert: no such program)
Ones(W, cnt) ==
    LET bitsize == W
    IN  IF cnt = 0 THEN {{}}
        ELSE {Trunc(W, r) : r \in ShrT(W, Trunc(W, NotT(W, {})), bitsize - cnt)}

\* getBits with the mask applied before the shift.
GetBitsMaskFirst(W, offset, bits, v) ==
    {Trunc(W, r) : r \in UNION {ShrT(W, v \cap m, offset) : m \in Ones(W, bits)}}

\* template <usize offset, usize bits, typename T> T getBits(T value)
GetBits(W, offset, bits, v) ==
    {Trunc(W, s \cap m) : s \in ShrT(W, v, offset), m \in Ones(W, bits)}

\* The values getBits is called with: one bit set, one bit clear, 0 and ~0.
FieldValues(W) ==
    {{}, AllOnes(W)} \cup {{a} : a \in AllOnes(W)}
        \cup {AllOnes(W) \ {a} : a \in AllOnes(W)}

CallOnes ==
    /\ fn = "none"
    /\ \E W \in Widths : \E c \in 0 .. W :
        /\ fn' = "ones"
        /\ width' = W
        /\ value' = {}
        /\ amount' = 0
        /\ count' = c
        /\ result' \in Ones(W, c)
        /\ UNCHANGED <<bcdVars, litVars, sfVars, mainVars>>

CallGetBits ==
    /\ fn = "none"
    /\ \E W \in Widths : \E offset \in 0 .. W :
         \E bits \in 0 .. (W - offset), v \in FieldValues(W) :
        /\ fn' = "getBits"
        /\ width' = W
        /\ value' = v
        /\ amount' = offset
        /\ count' = bits
        /\ result' \in GetBits(W, offset, bits, v)
        /\ UNCHANGED <<bcdVars, litVars, sfVars, mainVars>>

-----------------------------------------------------------------------------
(* Helpers::incBCDByte                                                     *)

\* incBCDByte adding 6 on a low nibble of 9.
IncBCDByteAddSix(v) ==
    IF v % 16 = 9 THEN (v + 6) % 256 ELSE (v + 1) % 256

\* u8 incBCDByte(u8 value): the sum is an int, the return converts it to u8.
IncBCDByte(v) ==
    IF v % 16 = 9 THEN (v + 7) % 256 ELSE (v + 1) % 256

CallIncBCDByte ==
    /\ fn = "none"
    /\ \E v \in 0 .. 255 :
        /\ fn' = "incBCDByte"
        /\ byteIn' = v
        /\ byteOut' = IncBCDByte(v)
        /\ UNCHANGED <<width, value, amount, count, result>>
        /\ UNCHANGED <<litVars, sfVars, mainVars>>

-----------------------------------------------------------------------------
(* operator""_KB, operator""_MB, operator""_GB                             *)
(* unsigned long long and std::size_t are 64 bits wide; a value is the     *)
(* sequence of its 8 bytes, least significant first.                       *)

\* Bytes of a 64-bit value.
SizeBytes == 8

\* A literal below 2^31 as a 64-bit value.
ToU64(n) ==
    [i \in 1 .. SizeBytes |-> IF i > 4 THEN 0 ELSE (n \div (256 ^ (i - 1))) % 256]

\* Column i of the schoolbook product: sum of a[j] * b[i + 1 - j], j in 1..i.
RECURSIVE MulColumn(_, _, _, _)
MulColumn(a, b, i, j) ==
    IF j > i THEN 0 ELSE a[j] * b[i + 1 - j] + MulColumn(a, b, i, j + 1)

RECURSIVE MulFrom(_, _, _, _)
MulFrom(a, b, i, carry) ==
    IF i > SizeBytes THEN <<>>
    ELSE LET t == MulColumn(a, b, i, 1) + carry
         IN  <<t % 256>> \o MulFrom(a, b, i + 1, t \div 256)

\* a * b in a 64-bit unsigned type: the product modulo 2^64.
Mul64(a, b) == MulFrom(a, b, 1, 0)

\* _KB scaling by 1000.
LitKBDecimal(x) == Mul64(ToU64(1000), x)

\* size_t operator""_KB(unsigned long long x) { return 1024ULL * x; }
LitKB(x) == Mul64(ToU64(1024), x)
\* size_t operator""_MB(unsigned long long x) { return 1024_KB * x; }
LitMB(x) == Mul64(LitKB(ToU64(1024)), x)
\* size_t operator""_GB(unsigned long long x) { return 1024_MB * x; }
LitGB(x) == Mul64(LitMB(ToU64(1024)), x)

\* The bytes the counts x are built from.
LitBytes == {0, 1, 255}

CallLiteral ==
    /\ fn = "none"
    /\ \E x \in [1 .. SizeBytes -> LitBytes], u \in {"KB", "MB", "GB"} :
        /\ fn' = "literal"
        /\ litUnit' = u
        /\ litX' = x
        /\ litOut' = CASE u = "KB" -> LitKB(x)
                       [] u = "MB" -> LitMB(x)
                       [] u = "GB" -> LitGB(x)
        /\ UNCHANGED <<width, value, amount, count, result>>
        /\ UNCHANGED <<bcdVars, sfVars, mainVars>>

-----------------------------------------------------------------------------
(* Helpers::static_for, Helpers::static_for_impl                           *)

\* Largest |Begin| and largest End - Begin the loop is instantiated with.
MaxBegin == 3
MaxLen == 5

\* A sequence 1, ..., N instead of 0, ..., N-1.
MakeIntegerSequenceFromOne(N) == [i \in 1 .. N |-> i]

\* std::make_integer_sequence<T, N>: the pack 0, 1, ..., N-1
MakeIntegerSequence(N) == [i \in 1 .. N |-> i - 1]

\* static_for<T, Begin, End>(f): calls static_for_impl<T, Begin> with the pack
\* make_integer_sequence<T, End - Begin> (ill-formed when End < Begin).
StaticFor ==
    /\ sfPc = "idle"
    /\ \E b \in (0 - MaxBegin) .. MaxBegin, len \in 0 .. MaxLen :
        /\ sfBegin' = b
        /\ sfEnd' = b + len
        /\ sfIs' = MakeIntegerSequence((b + len) - b)
    /\ sfPc' = "impl"
    /\ sfCalls' = <<>>
    /\ UNCHANGED <<bitVars, bcdVars, litVars, mainVars>>

\* One operand of the fold (f(integral_constant<T, Begin + Is>{}), ...): the
\* comma operator evaluates its operands left to right.
StaticForImplCall ==
    /\ sfPc = "impl"
    /\ sfIs # <<>>
    /\ sfCalls' = Append(sfCalls, sfBegin + Head(sfIs))
    /\ sfIs' = Tail(sfIs)
    /\ UNCHANGED <<sfPc, sfBegin, sfEnd>>
    /\ UNCHANGED <<bitVars, bcdVars, litVars, mainVars>>

\* The fold is exhausted: static_for_impl and static_for return.
StaticForReturn ==
    /\ sfPc = "impl"
    /\ sfIs = <<>>
    /\ sfPc' = "done"
    /\ UNCHANGED <<sfBegin, sfEnd, sfIs, sfCalls>>
    /\ UNCHANGED <<bitVars, bcdVars, litVars, mainVars>>

-----------------------------------------------------------------------------
(* main, Helpers::panic                                                    *)

\* Largest argc main is started with.
MaxArgc == 3

RomNames == {"a.3ds", "b.cxi", "c.elf"}
Dirs == {"/", "/home/user", "/roms"}
DefaultRom == "Metroid Prime - Federation Force (Europe) (En,Fr,De,Es,It).3ds"

\* The process starts: main is entered with argc and argv, emu is constructed.
MainEnter ==
    /\ pc = "start"
    /\ \E n \in 1 .. MaxArgc, d \in Dirs :
        \E a \in (IF n > 1 THEN RomNames ELSE {""}) :
            /\ argc' = n
            /\ argv1' = a
            /\ cwd' = d
    /\ pc' = "initGraphicsContext"
    /\ UNCHANGED <<romPath, loadOk, trace, stdout, exitCode>>
    /\ UNCHANGED <<bitVars, bcdVars, litVars, sfVars>>

\* emu.initGraphicsContext();
MainInitGraphicsContext ==
    /\ pc = "initGraphicsContext"
    /\ trace' = Append(trace, "initGraphicsContext")
    /\ pc' = "romPath"
    /\ UNCHANGED <<argc, argv1, cwd, romPath, loadOk, stdout, exitCode>>
    /\ UNCHANGED <<bitVars, bcdVars, litVars, sfVars>>

\* auto romPath = current_path() / (argc > 1 ? argv[1] : "Metroid ...");
MainRomPath ==
    /\ pc = "romPath"
    /\ romPath' = <<cwd, IF argc > 1 THEN argv1 ELSE DefaultRom>>
    /\ pc' = "loadROM"
    /\ UNCHANGED <<argc, argv1, cwd, loadOk, trace, stdout, exitCode>>
    /\ UNCHANGED <<bitVars, bcdVars, litVars, sfVars>>

\* if (!emu.loadROM(romPath)) { Helpers::panic(...); }
MainLoadROM ==
    /\ pc = "loadROM"
    /\ \E ok \in BOOLEAN :
        /\ loadOk' = ok
        /\ pc' = IF ok THEN "run" ELSE "panic"
    /\ trace' = Append(trace, "loadROM")
    /\ UNCHANGED <<argc, argv1, cwd, romPath, stdout, exitCode>>
    /\ UNCHANGED <<bitVars, bcdVars, litVars, sfVars>>

\* Helpers::panic, lines 37-39: "[FATAL] ", the formatted message, "\n".
PanicPrint ==
    /\ pc = "panic"
    /\ stdout' = stdout \o <<"[FATAL] ", <<"Failed to load ROM file: ", romPath>>, "\n">>
    /\ pc' = "exit"
    /\ UNCHANGED <<argc, argv1, cwd, romPath, loadOk, trace, exitCode>>
    /\ UNCHANGED <<bitVars, bcdVars, litVars, sfVars>>

\* A panic that returns to its caller instead of exiting.
PanicReturns ==
    /\ pc = "exit"
    /\ pc' = "run"
    /\ UNCHANGED <<argc, argv1, cwd, romPath, loadOk, trace, stdout, exitCode>>
    /\ UNCHANGED <<bitVars, bcdVars, litVars, sfVars>>

\* Helpers::panic, line 42: exit(1);
PanicExit ==
    /\ pc = "exit"
    /\ exitCode' = 1
    /\ pc' = "exited"
    /\ UNCHANGED <<argc, argv1, cwd, romPath, loadOk, trace, stdout>>
    /\ UNCHANGED <<bitVars, bcdVars, litVars, sfVars>>

\* emu.run();
MainRun ==
    /\ pc = "run"
    /\ trace' = Append(trace, "run")
    /\ pc' = "running"
    /\ UNCHANGED <<argc, argv1, cwd, romPath, loadOk, stdout, exitCode>>
    /\ UNCHANGED <<bitVars, bcdVars, litVars, sfVars>>

\* emu.run() returns and main falls off its end: exit status 0.
MainReturn ==
    /\ pc = "running"
    /\ exitCode' = 0
    /\ pc' = "exited"
    /\ UNCHANGED <<argc, argv1, cwd, romPath, loadOk, trace, stdout>>
    /\ UNCHANGED <<bitVars, bcdVars, litVars, sfVars>>

-----------------------------------------------------------------------------
Init ==
    /\ fn = "none" /\ width = 8 /\ value = {} /\ amount = 0 /\ count = 0
    /\ result = {}
    /\ byteIn = 0 /\ byteOut = 0
    /\ litUnit = "none" /\ litX = <<0, 0, 0, 0, 0, 0, 0, 0>>
    /\ litOut = <<0, 0, 0, 0, 0, 0, 0, 0>>
    /\ sfPc = "idle" /\ sfBegin = 0 /\ sfEnd = 0 /\ sfIs = <<>> /\ sfCalls = <<>>
    /\ pc = "start" /\ argc = 1 /\ argv1 = "" /\ cwd = "" /\ romPath = ""
    /\ loadOk = FALSE /\ trace = <<>> /\ stdout = <<>> /\ exitCode = -1

NextSignExtend == CallSignExtend32 \/ CallSignExtend16
SpecSignExtend == Init /\ [][NextSignExtend]_vars

NextOnes == CallOnes
SpecOnes == Init /\ [][NextOnes]_vars

NextGetBits == CallGetBits
SpecGetBits == Init /\ [][NextGetBits]_vars

NextBCD == CallIncBCDByte
SpecBCD == Init /\ [][NextBCD]_vars

NextLiteral == CallLiteral
SpecLiteral == Init /\ [][NextLiteral]_vars

NextStaticFor == StaticFor \/ StaticForImplCall \/ StaticForReturn
SpecStaticFor == Init /\ [][NextStaticFor]_vars

NextMain ==
    \/ MainEnter \/ MainInitGraphicsContext \/ MainRomPath \/ MainLoadROM
    \/ PanicPrint \/ PanicExit \/ MainRun \/ MainReturn
SpecMain == Init /\ [][NextMain]_vars

NextRotate == CallRotr \/ CallRotl \/ CallRotlOfRotr
SpecRotate == Init /\ [][NextRotate]_vars

-----------------------------------------------------------------------------
(* Two's-complement sign extension of the low n bits of v to W bits, stated *)
(* bit by bit.                                                              *)
SignExtended(W, v, n) ==
    {i \in AllOnes(W) : IF i < n THEN i \in v ELSE (n - 1) \in v}

\* C6: for every 32-bit v and n in 1..32, signExtend32(v, n) keeps the low n
\* bits of v and sets bits n..31 to bit n-1 of v.
C6_SignExtend32 ==
    (fn = "signExtend32" /\ amount \in 1 .. 32) =>
        result = SignExtended(32, value, amount)

C6_Witness ==
    /\ fn = "signExtend32" /\ value = {0} /\ amount = 1
    /\ result = AllOnes(32)

\* C1: for every 16-bit v and n in 1..16, signExtend16(v, n) keeps the low n
\* bits of v and sets bits n..15 to bit n-1 of v.
C1_SignExtend16 ==
    (fn = "signExtend16" /\ amount \in 1 .. 16) =>
        result = SignExtended(16, value, amount)

-----------------------------------------------------------------------------
(* The circular rotation of the W-bit value v to the right by k places.    *)
RotatedRight(W, v, k) == {(i - k) % W : i \in v}
RotatedLeft(W, v, k) == {(i + k) % W : i \in v}

\* C2: for every value x of width W and every int n (negative and >= W
\* included) rotr(x, n) is x rotated right by n mod W and rotl(x, n) is x
\* rotated left by n mod W; in particular rotr(x, 0) = rotr(x, W) = x.
C2_RotateReduced ==
    /\ fn = "rotr" => result = RotatedRight(width, value, amount % width)
    /\ fn = "rotl" => result = RotatedLeft(width, value, amount % width)
    /\ (fn = "rotr" /\ amount \in {0, width}) => result = value

\* C3: for every value x and every amount n, rotl(rotr(x, n), n) = x.
C3_RotlOfRotr == fn = "rotl(rotr)" => result = value

\* The same two statements for the 8- and 16-bit instantiations only.
RotateNarrow ==
    width < IntWidth =>
        /\ fn = "rotr" => result = RotatedRight(width, value, amount % width)
        /\ fn = "rotl" => result = RotatedLeft(width, value, amount % width)
        /\ fn = "rotl(rotr)" => result = value

\* and for amounts that are not a multiple of the width
RotateNonZero ==
    amount % width # 0 =>
        /\ fn = "rotr" => result = RotatedRight(width, value, amount % width)
        /\ fn = "rotl" => result = RotatedLeft(width, value, amount % width)
        /\ fn = "rotl(rotr)" => result = value

-----------------------------------------------------------------------------
\* C5: for every width W and count in 0..W, ones<T, count>() has exactly
\* count one bits, at positions 0..count-1, and none at a position >= count;
\* ones<T, 0>() is 0 and ones<T, W>() is the all-ones value.
C5_Ones ==
    fn = "ones" =>
        /\ Cardinality(result) = count
        /\ \A i \in AllOnes(width) : i \in result <=> i < count
        /\ result \subseteq AllOnes(width)
        /\ count = 0 => result = {}
        /\ count = width => result = AllOnes(width)

C5_Witness == fn = "ones" /\ width = 8 /\ count = 3 /\ result = {0, 1, 2}

-----------------------------------------------------------------------------
(* Packed BCD: one decimal digit per nibble.                               *)
ValidBCD(b) == b % 16 <= 9 /\ b \div 16 <= 9
BCDValue(b) == 10 * (b \div 16) + (b % 16)

\* C7: for every valid packed BCD byte v below 0x99, incBCDByte(v) is the
\* valid packed BCD byte of the next decimal number: v + 7 when the low
\* nibble is 9 (low digit cleared, high digit carried into), v + 1 otherwise.
C7_IncBCDByte ==
    (fn = "incBCDByte" /\ ValidBCD(byteIn) /\ byteIn < 153) =>
        /\ ValidBCD(byteOut)
        /\ BCDValue(byteOut) = BCDValue(byteIn) + 1
        /\ byteIn % 16 = 9 =>
              /\ byteOut = byteIn + 7
              /\ byteOut % 16 = 0
              /\ byteOut \div 16 = byteIn \div 16 + 1
        /\ byteIn % 16 # 9 => byteOut = byteIn + 1

C7_Witness == fn = "incBCDByte" /\ byteIn = 25 /\ byteOut = 32

-----------------------------------------------------------------------------
\* The one bits of a 64-bit value given by its bytes.
BytesToBits(x) ==
    {8 * (i - 1) + j : i \in 1 .. SizeBytes, j \in 0 .. 7} \cap
        {k \in 0 .. (8 * SizeBytes - 1) : (x[(k \div 8) + 1] \div (2 ^ (k % 8))) % 2 = 1}

\* 1024 = 2^10: the exact product 1024^e * x has the one bits of x moved up
\* by 10 * e places.
Scaled(x, e) == {b + 10 * e : b \in BytesToBits(x)}
UnitExponent == [KB |-> 1, MB |-> 2, GB |-> 3]

\* C9: for every count x whose scaled value fits in 64 bits, x_KB = 1024 x,
\* x_MB = 1024^2 x and x_GB = 1024^3 x; so 1_MB = 1024_KB and 1_GB = 1024_MB.
C9_Literals ==
    fn = "literal" =>
        /\ Scaled(litX, UnitExponent[litUnit]) \subseteq 0 .. (8 * SizeBytes - 1)
              => BytesToBits(litOut) = Scaled(litX, UnitExponent[litUnit])
        /\ (litUnit = "MB" /\ litX = ToU64(1)) => litOut = LitKB(ToU64(1024))
        /\ (litUnit = "GB" /\ litX = ToU64(1)) => litOut = LitMB(ToU64(1024))
        /\ (litUnit = "KB" /\ litX = ToU64(1)) => litOut = ToU64(1024)

C9_Witness ==
    /\ fn = "literal" /\ litUnit = "GB"
    /\ litX = <<255, 1, 0, 255, 1, 0, 0, 0>>
    /\ litOut = <<0, 0, 0, 192, 127, 0, 192, 127>>

-----------------------------------------------------------------------------
\* C8: for Begin <= End, static_for<T, Begin, End>(f) invokes f exactly
\* End - Begin times, the k-th time with Begin + k - 1 (once per integer of
\* [Begin, End), ascending, never outside the range); none when Begin = End.
C8_StaticFor ==
    /\ sfPc # "idle" =>
          /\ Len(sfCalls) <= sfEnd - sfBegin
          /\ \A k \in 1 .. Len(sfCalls) : sfCalls[k] = sfBegin + k - 1
          /\ \A k \in 1 .. Len(sfCalls) : sfBegin <= sfCalls[k] /\ sfCalls[k] < sfEnd
    /\ sfPc = "done" =>
          /\ Len(sfCalls) = sfEnd - sfBegin
          /\ sfBegin = sfEnd => sfCalls = <<>>

C8_Witness ==
    sfPc = "done" /\ sfBegin = 0 /\ sfEnd = 5 /\ sfCalls = <<0, 1, 2, 3, 4>>

-----------------------------------------------------------------------------
IsPrefix(p, q) == Len(p) <= Len(q) /\ \A k \in 1 .. Len(p) : p[k] = q[k]
Called(m) == \E k \in 1 .. Len(trace) : trace[k] = m

\* C10: main calls initGraphicsContext, loadROM, run in this order; run is
\* reached only if loadROM returned true; when it returned false, panic
\* emits its message, then ends the process with status 1 and never returns,
\* so run is never called in that execution.
C10_MainOrder ==
    /\ IsPrefix(trace, <<"initGraphicsContext", "loadROM", "run">>)
    /\ (pc = "run" \/ Called("run")) => (Called("loadROM") /\ loadOk)
    /\ (Called("loadROM") /\ ~loadOk) =>
          /\ pc \in {"panic", "exit", "exited"}
          /\ ~Called("run")
          /\ exitCode \in {-1, 1}
          /\ pc = "exited" <=> exitCode = 1
    /\ exitCode = 1 =>
          /\ ~loadOk
          /\ stdout = <<"[FATAL] ", <<"Failed to load ROM file: ", romPath>>, "\n">>
    /\ pc = "exit" => stdout # <<>>

C10_Witness ==
    /\ pc = "exited" /\ exitCode = 1 /\ ~loadOk
    /\ trace = <<"initGraphicsContext", "loadROM">>
    /\ stdout # <<>>

====
